---------------------------- MODULE Spec2Model ----------------------------
(***************************************************************************)
(* A model of Source-Map-Extractor/grab_sources_from_site.py.              *)
(*                                                                         *)
(* Text is modelled as a sequence of tokens (one-character strings, or a   *)
(* named token standing for a fixed literal of the program):               *)
(*   "//#sm="  the literal  //# sourceMappingURL=                          *)
(*   "/*#sm="  the literal  /*# sourceMappingURL=                          *)
(*   "*/"      the end of a block comment                                  *)
(*   "sp"      a blank, "nl" a line break                                  *)
(*   "https:"  the scheme of the page                                      *)
(*   "data:" "base64" ","   the parts of a data: URI                       *)
(*   "json"    a JSON text, "b64json" the base64 encoding of a JSON text,  *)
(*   "junk"    a payload that is neither                                   *)
(* Every other token is an ordinary character.                             *)
(***************************************************************************)
EXTENDS Integers, Sequences, FiniteSets, TLC

VARIABLES
    pc,              \* where the script is: "start", "loop", "inline_sources",
                     \* "remote_sources", "done", "aborted" (page fetch failed),
                     \* "crashed" (an exception nobody catches)
    script_entries,  \* line 111: the entries the for loop of line 117 has yet to take
    e,               \* how many entries the for loop of line 117 has taken
    js_final_url,    \* line 122 (js_base) / line 155
    sm,              \* line 121 / 160
    sm_json,         \* line 126 / 166
    i,               \* position of the for loop of line 133 / 177
    processed_maps,  \* line 114
    saved_files,     \* line 115
    fs,              \* the files under out_dir: path -> content
    writes,          \* every save_file call so far, in order
    fetches,         \* the source GETs issued for the current entry, in order
    decoded,         \* per processed entry, what handle_map_url came back with
    console,         \* the last line printed
    sanSrc, sanRoot, sanOut, sanPc,   \* the path cleanup applied to one input
    exText, exOut, exPc               \* extract_mapping_reference on one input

vars == <<pc, script_entries, e, js_final_url, sm, sm_json, i, processed_maps,
          saved_files, fs, writes, fetches, decoded, console,
          sanSrc, sanRoot, sanOut, sanPc, exText, exOut, exPc>>

mainVars == <<pc, script_entries, e, js_final_url, sm, sm_json, i, processed_maps,
              saved_files, fs, writes, fetches, decoded, console>>
sanVars == <<sanSrc, sanRoot, sanOut, sanPc>>
exVars == <<exText, exOut, exPc>>

-----------------------------------------------------------------------------
(* Bounds of the model *)

MaxScripts == 2
MaxSources == 2
MaxSrcLen == 4
MaxRootLen == 2
MaxTextLen == 5

-----------------------------------------------------------------------------
(* Strings *)

Lower == {"a", "b", "c", "d", "e", "f", "g", "h", "i", "j", "k", "l", "m",
          "n", "o", "p", "q", "r", "s", "t", "u", "v", "w", "x", "y", "z"}

Upper == {"A", "B", "C", "D", "E", "F", "G", "H", "I", "J", "K", "L", "M",
          "N", "O", "P", "Q", "R", "S", "T", "U", "V", "W", "X", "Y", "Z"}

SeqsUpTo(S, n) == UNION {[1..k -> S] : k \in 0..n}

Drop(s, n) == SubSeq(s, n + 1, Len(s))

StartsWith(s, p) == Len(s) >= Len(p) /\ SubSeq(s, 1, Len(p)) = p

\* how many leading tokens of s lie in the set C
LeadCount(s, C) ==
    IF \A k \in 1..Len(s) : s[k] \in C THEN Len(s)
    ELSE (CHOOSE k \in 1..Len(s) : s[k] \notin C /\ \A j \in 1..(k - 1) : s[j] \in C) - 1

\* how many trailing tokens of s lie in the set C
TrailCount(s, C) ==
    IF \A k \in 1..Len(s) : s[k] \in C THEN Len(s)
    ELSE Len(s) - (CHOOSE k \in 1..Len(s) :
                      s[k] \notin C /\ \A j \in (k + 1)..Len(s) : s[j] \in C)

\* str.lstrip(chars)
lstrip(s, C) == Drop(s, LeadCount(s, C))

\* str.strip(chars)
strip(s, C) ==
    LET t == lstrip(s, C)
    IN  SubSeq(t, 1, Len(t) - TrailCount(t, C))

Min(a, b) == IF a < b THEN a ELSE b

\* a cleanup that wants all three slashes:  re.sub(r'^[a-z]+:///', '', s)
StripSchemeThreeSlashes(s) ==
    LET n == LeadCount(s, Lower)
    IN  IF n >= 1 /\ StartsWith(Drop(s, n), <<":", "/", "/", "/">>)
        THEN Drop(s, n + 4)
        ELSE s

\* re.sub(r'^[a-z]+:/{0,3}', '', s)
StripScheme(s) ==
    LET n == LeadCount(s, Lower)
    IN  IF n >= 1 /\ n < Len(s) /\ s[n + 1] = ":"
        THEN Drop(s, n + 1 + Min(3, LeadCount(Drop(s, n + 1), {"/"})))
        ELSE s

\* os.path.join(a, b) of posixpath
PathJoin(a, b) ==
    IF Len(b) > 0 /\ b[1] = "/" THEN b
    ELSE IF Len(a) = 0 \/ a[Len(a)] = "/" THEN a \o b
    ELSE a \o <<"/">> \o b

\* lines 180-185: the path a source of a remote script is written to
CleanedPath(src, src_root) ==
    LET cleaned == lstrip(StripScheme(src), {"/"})
    IN  IF src_root # <<>> THEN PathJoin(strip(src_root, {"/"}), cleaned)
        ELSE cleaned

\* lines 134-136: the path a source of an inline script is written to
InlineFilename(src, src_root) ==
    IF src_root # <<>> THEN PathJoin(src_root, src) ELSE src

-----------------------------------------------------------------------------
(* extract_mapping_reference, lines 63-71 *)

Whitespace == {"sp", "nl"}

\* the last position of the line that position p lies on
LineEnd(t, p) ==
    IF \A k \in p..Len(t) : t[k] # "nl" THEN Len(t)
    ELSE (CHOOSE k \in p..Len(t) : t[k] = "nl" /\ \A j \in p..(k - 1) : t[j] # "nl") - 1

\* first alternative of sm_re at p:  //# sourceMappingURL=(?P<url>.+)$
LineAltAt(t, p) == t[p] = "//#sm=" /\ p < Len(t) /\ t[p + 1] # "nl"

LineAltGroup(t, p) == SubSeq(t, p + 1, LineEnd(t, p + 1))

\* the ends the group of the second alternative may have: it stays on its line
\* and is followed by blanks and line breaks, then */
BlockEnds(t, p) ==
    {q \in (p + 1)..Len(t) :
        /\ \A j \in (p + 1)..q : t[j] # "nl"
        /\ \E f \in (q + 1)..Len(t) :
              t[f] = "*/" /\ \A j \in (q + 1)..(f - 1) : t[j] \in Whitespace}

\* second alternative of sm_re at p:  /\*# sourceMappingURL=(?P<url2>.+)\s*\*/
BlockAltAt(t, p) == t[p] = "/*#sm=" /\ BlockEnds(t, p) # {}

\* .+ is greedy: the group is the longest one that lets the rest match
BlockAltGroup(t, p) ==
    SubSeq(t, p + 1, CHOOSE q \in BlockEnds(t, p) : \A r \in BlockEnds(t, p) : r <= q)

\* sm_re.search(js_text): the leftmost position where an alternative matches
MatchStarts(t) == {p \in 1..Len(t) : LineAltAt(t, p) \/ BlockAltAt(t, p)}

NoReference == [found |-> FALSE, val |-> <<>>]

\* found = FALSE stands for None
extract_mapping_reference(js_text) ==
    IF MatchStarts(js_text) = {} THEN NoReference
    ELSE LET p == CHOOSE q \in MatchStarts(js_text) : \A r \in MatchStarts(js_text) : q <= r
             url == IF LineAltAt(js_text, p) THEN LineAltGroup(js_text, p)
                    ELSE BlockAltGroup(js_text, p)
         IN  [found |-> TRUE, val |-> strip(url, Whitespace)]

-----------------------------------------------------------------------------
(* urllib.parse.urljoin on URLs of the form  https: // host path, for references *)
(* without query, fragment or dot segments                                  *)

SchemeChars == Lower \cup Upper \cup {"+", "-", "."}

\* urlsplit finds a scheme: letters before the first colon, or the token https:
HasScheme(u) ==
    /\ Len(u) > 0
    /\ \/ u[1] = "https:"
       \/ \E k \in 2..Len(u) :
             /\ u[k] = ":"
             /\ u[1] \in Lower \cup Upper
             /\ \A j \in 1..(k - 1) : u[j] \in SchemeChars

\* the part of a text before its first "/" (all of it when it has none)
UpToSlash(s) == SubSeq(s, 1, LeadCount(s, {c \in {s[k] : k \in 1..Len(s)} : c # "/"}))

\* https: // host of a URL
Origin(u) == <<"https:", "/", "/">> \o UpToSlash(Drop(u, 3))

UrlPath(u) == Drop(u, Len(Origin(u)))

\* a path without its last segment
DirOf(path) == SubSeq(path, 1, Len(path) - TrailCount(path, {c \in {path[k] : k \in 1..Len(path)} : c # "/"}))

\* a path with its runs of "/" collapsed into one
RECURSIVE Collapse(_)
Collapse(s) ==
    IF Len(s) < 2 THEN s
    ELSE IF s[1] = "/" /\ s[2] = "/" THEN Collapse(Tail(s))
    ELSE <<s[1]>> \o Collapse(Tail(s))

urljoin(base, url) ==
    IF url = <<>> THEN base
    ELSE IF HasScheme(url) THEN url
    ELSE IF StartsWith(url, <<"/", "/">>) THEN
        LET netloc == UpToSlash(Drop(url, 2))
            path == Drop(url, 2 + Len(netloc))
        IN  IF netloc # <<>> THEN <<"https:", "/", "/">> \o netloc \o path
            ELSE IF path = <<>> THEN base
            ELSE Origin(base) \o path
    ELSE IF url[1] = "/" THEN Origin(base) \o url
    ELSE Origin(base) \o Collapse(IF UrlPath(base) = <<>> THEN <<"/">> \o url
                                  ELSE DirOf(UrlPath(base)) \o url)


-----------------------------------------------------------------------------
(* The values the program handles *)

\* a str, or None
None == [isNone |-> TRUE, text |-> <<>>]
Str(t) == [isNone |-> FALSE, text |-> t]

NoFields == [k \in {} |-> None]

\* What json.loads / r.json() yields.  An object is known by the three members
\* the program reads (fields) and by whether it holds any other member, such
\* as "version" (more).  An array is known by whether it holds anything
\* (more).  JSON null is Python's None.
JsonNone == [type |-> "null", more |-> FALSE, fields |-> NoFields]
JsonArray(nonempty) == [type |-> "array", more |-> nonempty, fields |-> NoFields]
JsonObject(more, fields) == [type |-> "object", more |-> more, fields |-> fields]

\* bool(v) of Python, as in "if not sm_json"
Truthy(v) ==
    \/ v.type = "object" /\ (v.more \/ DOMAIN v.fields # {})
    \/ v.type = "array" /\ v.more

\* sm_json.get(key, default)
Get(v, key, default) == IF key \in DOMAIN v.fields THEN v.fields[key] ELSE default

\* the sources entries and the contents the model draws maps from
SrcNames == {<<"a">>, <<"w", ":", "/", "/", "/", "a">>}
RootNames == {<<"r">>}
ContentVals == {None, Str(<<>>), Str(<<"x">>)}

SourceLists == SeqsUpTo(SrcNames, MaxSources)

\* the members of a map: sourcesContent is index-parallel to sources and may
\* be shorter, or missing
FieldsOf(r, hs, srcs, hc, cont) ==
    (IF r = <<>> THEN NoFields ELSE "sourceRoot" :> r)
        @@ (IF hs THEN "sources" :> srcs ELSE NoFields)
        @@ (IF hc THEN "sourcesContent" :> cont ELSE NoFields)

FieldMaps ==
    UNION {{FieldsOf(r, hs, srcs, hc, cont) :
               r \in RootNames \cup {<<>>}, hs \in BOOLEAN, hc \in BOOLEAN,
               cont \in SeqsUpTo(ContentVals, Len(srcs))} :
           srcs \in SourceLists}

\* every JSON value a map reference can decode to
JsonVals ==
    {JsonNone, JsonArray(FALSE), JsonArray(TRUE), JsonObject(FALSE, NoFields)}
        \cup {JsonObject(TRUE, f) : f \in FieldMaps}

-----------------------------------------------------------------------------
(* The page and what the network answers *)

\* final_page_url, line 110
final_page_url == <<"https:", "/", "/", "h", "/", "p">>

\* the URLs find_scripts_from_html resolves script src attributes to
ScriptUrls == {<<"https:", "/", "/", "h", "/", "j", "/", "s">>}

\* the value of a sourceMappingURL comment
Refs ==
    {<<"sp">>,
     <<"m", "/", "k">>,
     <<"data:", "base64">>,
     <<"data:", "base64", ",", "b64json">>,
     <<"data:", "base64", ",", "junk">>,
     <<"data:", ",", "json">>,
     <<"data:", ",", "junk">>}

\* the script bodies of the page
ScriptTexts ==
    {<<>>, <<"c">>, <<"/*#sm=", "m", "/", "k", "sp", "*/", "nl", "c">>}
        \cup {<<"c", "nl", "//#sm=">> \o r : r \in Refs}

InlineEntry(text) == [inline |-> TRUE, content |-> text, url |-> <<>>]
RemoteEntry(url) == [inline |-> FALSE, content |-> <<>>, url |-> url]

\* find_scripts_from_html, lines 51-61: one entry per script element
Entries == {InlineEntry(t) : t \in ScriptTexts} \cup {RemoteEntry(u) : u \in ScriptUrls}

\* the bodies a GET for a source answers with
Bodies == {<<>>, <<"sp">>, <<"y">>}

\* session.get: an exception, or a response with a status and a body
Raised == [raised |-> TRUE, status |-> 0, text |-> <<>>]
Response(status, text) == [raised |-> FALSE, status |-> status, text |-> text]

\* requests raises on a URL that is not http(s)
Responses(url, bodies) ==
    IF StartsWith(url, <<"https:", "/", "/">>)
    THEN {Raised} \cup {Response(st, b) : st \in {200, 404}, b \in bodies}
    ELSE {Raised}


-----------------------------------------------------------------------------
(* handle_map_url, lines 73-96 *)

Tokens(s) == {s[k] : k \in 1..Len(s)}

Raise == [raised |-> TRUE, value |-> JsonNone, line |-> ""]
Return(v, line) == [raised |-> FALSE, value |-> v, line |-> line]

\* base64.b64decode: text that is no base64 either raises binascii.Error or
\* decodes to bytes that are no JSON text
b64decode(b64) ==
    IF b64 = <<"b64json">> THEN {[raised |-> FALSE, bytes |-> <<"json">>]}
    ELSE {[raised |-> TRUE, bytes |-> <<>>], [raised |-> FALSE, bytes |-> <<"junk">>]}

\* json.loads: any JSON value for a JSON text, JSONDecodeError for the rest
json_loads(text) ==
    IF text = <<"json">> THEN {Return(v, "") : v \in JsonVals} ELSE {Raise}

\* the ways a call can end: an exception that leaves the function, or a
\* returned value, with the line it printed
handle_map_url(map_url_or_data, js_base_url) ==
    IF StartsWith(map_url_or_data, <<"data:">>)
    THEN IF "," \notin Tokens(map_url_or_data)
         THEN {Return(JsonNone, "")}
         ELSE LET k == CHOOSE n \in 1..Len(map_url_or_data) :
                           /\ map_url_or_data[n] = ","
                           /\ \A j \in 1..(n - 1) : map_url_or_data[j] # ","
                  header == SubSeq(map_url_or_data, 1, k - 1)
                  b64 == Drop(map_url_or_data, k)
              IN  IF "base64" \in Tokens(header)
                  THEN UNION {IF raw.raised THEN {Raise} ELSE json_loads(raw.bytes) :
                                 raw \in b64decode(b64)}
                  ELSE json_loads(b64)
    ELSE {Return(JsonNone, "Failed to fetch/parse map")}
             \cup {Return(v, "") : v \in JsonVals}

-----------------------------------------------------------------------------
(* try_fetch_source_by_url, lines 98-107, and save_file, lines 41-49 *)

candidate(source_path, map_url) == urljoin(map_url, source_path)

\* a check of the status alone, without "and r.text.strip()"
FetchedContentAnyBody(r) ==
    IF ~r.raised /\ r.status = 200 THEN Str(r.text) ELSE None

\* what the function returns for an answer of the network
FetchedContent(r) ==
    IF ~r.raised /\ r.status = 200 /\ strip(r.text, Whitespace) # <<>>
    THEN Str(r.text) ELSE None

try_fetch_source_by_url(source_path, map_url) ==
    {FetchedContent(r) : r \in Responses(candidate(source_path, map_url), Bodies)}

\* a writer that leaves a file that exists alone
save_file_keep(files, path, content) ==
    [p \in DOMAIN files \cup {path} |-> IF p \in DOMAIN files THEN files[p] ELSE content]

\* the files after open(full, "wb") and f.write(content)
save_file(files, path, content) ==
    [p \in DOMAIN files \cup {path} |-> IF p = path THEN content ELSE files[p]]

\* a test of the truth of contents[i] in place of "is not None"
EmbeddedTruthy(list, n) ==
    list # <<>> /\ n <= Len(list) /\ ~list[n].isNone /\ list[n].text # <<>>

\* contents[i] when the list has a value there, line 139 / 187
Embedded(list, n) ==
    list # <<>> /\ n <= Len(list) /\ ~list[n].isNone

\* a loop that gives up at the first source without content
next_index_break(n, content, count) == IF content.isNone THEN count + 1 ELSE n + 1

\* enumerate(sources), lines 133 / 177: the next turn takes the next index,
\* also after the "continue" of line 195
next_index(n, content, count) == n + 1

\* map_url_guess, line 191
map_url_guess(ref, js_url) ==
    IF ~StartsWith(ref, <<"data:">>) THEN urljoin(js_url, ref) ELSE js_url

\* the base the inline branch hands to try_fetch_source_by_url, line 143
inline_fetch_base(ref, page_url) == page_url

Line(text) == [line |-> text, maps |-> 0, files |-> 0]


-----------------------------------------------------------------------------
(* MAIN, lines 109-200 *)

\* lines 130-132 / 172-174
src_root == Get(sm_json, "sourceRoot", <<>>)
sources == Get(sm_json, "sources", <<>>)
contents == Get(sm_json, "sourcesContent", <<>>)

MainInit ==
    /\ pc = "start"
    /\ script_entries = <<>>
    /\ e = 0
    /\ js_final_url = <<>>
    /\ sm = NoReference
    /\ sm_json = JsonNone
    /\ i = 0
    /\ processed_maps = 0
    /\ saved_files = 0
    /\ fs = [p \in {} |-> <<>>]
    /\ writes = <<>>
    /\ fetches = <<>>
    /\ decoded = <<>>
    /\ console = Line("")

\* lines 110-115: get_text raises when the page cannot be fetched
FetchPage ==
    /\ pc = "start"
    /\ \/ /\ pc' = "aborted"
          /\ UNCHANGED <<script_entries, console>>
       \/ /\ script_entries' \in SeqsUpTo(Entries, MaxScripts)
          /\ console' = Line("Found script entries")
          /\ pc' = "loop"
    /\ UNCHANGED <<e, js_final_url, sm, sm_json, i, processed_maps, saved_files,
                   fs, writes, fetches, decoded>>

\* what "sm_json = handle_map_url(...)" and the lines up to the sources loop
\* do with one way the call can end; branch is the pc of the sources loop
AfterHandleMapUrl(out, branch, failLine) ==
    IF out.raised
    THEN /\ pc' = "crashed"
         /\ decoded' = Append(decoded, "none")
         /\ UNCHANGED <<sm_json, i, processed_maps, console>>
    ELSE /\ sm_json' = out.value
         /\ decoded' = Append(decoded, IF out.value.type = "object" THEN "document" ELSE "none")
         /\ IF ~Truthy(out.value)
            THEN /\ pc' = "loop"
                 /\ console' = IF failLine # "" THEN Line(failLine)
                               ELSE IF out.line # "" THEN Line(out.line) ELSE console
                 /\ UNCHANGED <<i, processed_maps>>
            ELSE /\ processed_maps' = processed_maps + 1
                 /\ console' = console
                 /\ IF out.value.type = "object"
                    THEN pc' = branch /\ i' = 1
                    ELSE pc' = "crashed" /\ i' = i

\* lines 118-132: the next entry is an inline script
TakeInlineEntry ==
    /\ pc = "loop"
    /\ script_entries # <<>>
    /\ Head(script_entries).inline
    /\ e' = e + 1
    /\ LET js_text == Head(script_entries).content
           ref == extract_mapping_reference(js_text)
       IN  /\ sm' = ref
           /\ IF ~ref.found \/ ref.val = <<>>
              THEN /\ pc' = "loop"
                   /\ console' = Line("Inline script mapping")
                   /\ decoded' = Append(decoded, "none")
                   /\ sm_json' = JsonNone
                   /\ UNCHANGED <<i, processed_maps>>
              ELSE \E out \in handle_map_url(ref.val, final_page_url) :
                      AfterHandleMapUrl(out, "inline_sources", "")
    /\ js_final_url' = <<>>
    /\ fetches' = <<>>
    /\ script_entries' = Tail(script_entries)
    /\ UNCHANGED <<saved_files, fs, writes>>

\* lines 133-146: one turn of the sources loop of an inline script
InlineSourceStep ==
    /\ pc = "inline_sources"
    /\ i <= Len(sources)
    /\ LET src == sources[i]
           filename == InlineFilename(src, src_root)
           url == candidate(src, inline_fetch_base(sm.val, final_page_url))
       IN  \E content \in IF Embedded(contents, i) THEN {contents[i]}
                          ELSE try_fetch_source_by_url(src, inline_fetch_base(sm.val, final_page_url)) :
              /\ fetches' = IF Embedded(contents, i) THEN fetches
                            ELSE Append(fetches, [index |-> i, url |-> url])
              /\ IF ~content.isNone
                 THEN /\ fs' = save_file(fs, filename, content.text)
                      /\ writes' = Append(writes, [entry |-> e, index |-> i,
                                                   path |-> filename, content |-> content.text])
                      /\ saved_files' = saved_files + 1
                 ELSE UNCHANGED <<fs, writes, saved_files>>
              /\ i' = next_index(i, content, Len(sources))
    /\ UNCHANGED <<pc, script_entries, e, js_final_url, sm, sm_json, processed_maps,
                   decoded, console>>

\* line 133 runs out of sources, line 147
InlineSourcesDone ==
    /\ pc = "inline_sources"
    /\ i > Len(sources)
    /\ pc' = "loop"
    /\ UNCHANGED <<script_entries, e, js_final_url, sm, sm_json, i, processed_maps,
                   saved_files, fs, writes, fetches, decoded, console>>

\* lines 150-174: the next entry is the URL of a script
TakeRemoteEntry ==
    /\ pc = "loop"
    /\ script_entries # <<>>
    /\ ~Head(script_entries).inline
    /\ e' = e + 1
    /\ fetches' = <<>>
    /\ LET js_url == Head(script_entries).url
       IN  \E r \in Responses(js_url, ScriptTexts) :
              IF r.raised \/ r.status # 200
              THEN /\ pc' = "loop"
                   /\ console' = Line("Failed to fetch JS")
                   /\ decoded' = Append(decoded, "none")
                   /\ js_final_url' = <<>>
                   /\ sm' = NoReference
                   /\ sm_json' = JsonNone
                   /\ UNCHANGED <<i, processed_maps>>
              ELSE LET ref == extract_mapping_reference(r.text)
                   IN  /\ js_final_url' = js_url
                       /\ sm' = ref
                       /\ IF ~ref.found \/ ref.val = <<>>
                          THEN /\ pc' = "loop"
                               /\ console' = Line("No sourceMappingURL found")
                               /\ decoded' = Append(decoded, "none")
                               /\ sm_json' = JsonNone
                               /\ UNCHANGED <<i, processed_maps>>
                          ELSE \E out \in handle_map_url(ref.val, js_url) :
                                  AfterHandleMapUrl(out, "remote_sources", "Could not load map")
    /\ script_entries' = Tail(script_entries)
    /\ UNCHANGED <<saved_files, fs, writes>>

\* lines 177-198: one turn of the sources loop of a remote script
RemoteSourceStep ==
    /\ pc = "remote_sources"
    /\ i <= Len(sources)
    /\ LET src == sources[i]
           cleaned == CleanedPath(src, src_root)
           base == map_url_guess(sm.val, js_final_url)
       IN  \E content \in IF Embedded(contents, i) THEN {contents[i]}
                          ELSE try_fetch_source_by_url(src, base) :
              /\ fetches' = IF Embedded(contents, i) THEN fetches
                            ELSE Append(fetches, [index |-> i, url |-> candidate(src, base)])
              /\ IF content.isNone
                 THEN /\ console' = Line("Could not obtain content for source")
                      /\ UNCHANGED <<fs, writes, saved_files>>
                 ELSE /\ fs' = save_file(fs, cleaned, content.text)
                      /\ writes' = Append(writes, [entry |-> e, index |-> i,
                                                   path |-> cleaned, content |-> content.text])
                      /\ saved_files' = saved_files + 1
                      /\ console' = Line("Saved")
              /\ i' = next_index(i, content, Len(sources))
    /\ UNCHANGED <<pc, script_entries, e, js_final_url, sm, sm_json, processed_maps, decoded>>

\* line 177 runs out of sources
RemoteSourcesDone ==
    /\ pc = "remote_sources"
    /\ i > Len(sources)
    /\ pc' = "loop"
    /\ UNCHANGED <<script_entries, e, js_final_url, sm, sm_json, i, processed_maps,
                   saved_files, fs, writes, fetches, decoded, console>>

\* line 200, once line 117 has run out of entries
Summary ==
    /\ pc = "loop"
    /\ script_entries = <<>>
    /\ pc' = "done"
    /\ console' = [line |-> "Processed", maps |-> processed_maps, files |-> saved_files]
    /\ UNCHANGED <<script_entries, e, js_final_url, sm, sm_json, i, processed_maps,
                   saved_files, fs, writes, fetches, decoded>>

SanIdle == sanSrc = <<>> /\ sanRoot = <<>> /\ sanOut = <<>> /\ sanPc = "off"
ExIdle == exText = <<>> /\ exOut = NoReference /\ exPc = "off"
MainIdle ==
    /\ pc = "off" /\ script_entries = <<>> /\ e = 0 /\ js_final_url = <<>>
    /\ sm = NoReference /\ sm_json = JsonNone /\ i = 0 /\ processed_maps = 0
    /\ saved_files = 0 /\ fs = [p \in {} |-> <<>>] /\ writes = <<>>
    /\ fetches = <<>> /\ decoded = <<>> /\ console = Line("")

Init == MainInit /\ SanIdle /\ ExIdle

Next ==
    \/ FetchPage /\ UNCHANGED <<sanVars, exVars>>
    \/ TakeInlineEntry /\ UNCHANGED <<sanVars, exVars>>
    \/ InlineSourceStep /\ UNCHANGED <<sanVars, exVars>>
    \/ InlineSourcesDone /\ UNCHANGED <<sanVars, exVars>>
    \/ TakeRemoteEntry /\ UNCHANGED <<sanVars, exVars>>
    \/ RemoteSourceStep /\ UNCHANGED <<sanVars, exVars>>
    \/ RemoteSourcesDone /\ UNCHANGED <<sanVars, exVars>>
    \/ Summary /\ UNCHANGED <<sanVars, exVars>>

Spec == Init /\ [][Next]_vars


-----------------------------------------------------------------------------
(* The path cleanup of lines 180-185 on its own, over every short input *)

SanAlphabet == {"a", "B", ":", "/"}

WebpackSrc == <<"w", "e", "b", "p", "a", "c", "k", ":", "/", "/", "/",
                "s", "r", "c", "/", "x", ".", "j", "s">>
WebpackCleaned == <<"s", "r", "c", "/", "x", ".", "j", "s">>

SanInit ==
    /\ sanPc = "in"
    /\ sanSrc \in SeqsUpTo(SanAlphabet, MaxSrcLen) \cup {WebpackSrc}
    /\ sanRoot \in SeqsUpTo(SanAlphabet, MaxRootLen)
    /\ sanOut = <<>>
    /\ MainIdle /\ ExIdle

SanApply ==
    /\ sanPc = "in"
    /\ sanOut' = CleanedPath(sanSrc, sanRoot)
    /\ sanPc' = "out"
    /\ UNCHANGED <<sanSrc, sanRoot, mainVars, exVars>>

SpecSanitize == SanInit /\ [][SanApply]_vars

-----------------------------------------------------------------------------
(* extract_mapping_reference on its own, over every short script text *)

ExAlphabet == {"//#sm=", "/*#sm=", "*/", "sp", "nl", "c"}

FooMap == <<"f", "o", "o", ".", "j", "s", ".", "m", "a", "p">>

\* scripts with the line  //# sourceMappingURL=foo.js.map  at the start, in
\* the middle and at the end
FooTexts ==
    {pre \o <<"//#sm=">> \o FooMap \o post :
        pre \in {<<>>, <<"c", "nl">>, <<"c", "sp", "c", "nl", "nl">>},
        post \in {<<>>, <<"nl", "c">>, <<"sp", "nl", "c", "nl">>}}

ExInit ==
    /\ exPc = "in"
    /\ exText \in SeqsUpTo(ExAlphabet, MaxTextLen) \cup FooTexts
    /\ exOut = NoReference
    /\ MainIdle /\ SanIdle

ExApply ==
    /\ exPc = "in"
    /\ exOut' = extract_mapping_reference(exText)
    /\ exPc' = "out"
    /\ UNCHANGED <<exText, mainVars, sanVars>>

SpecExtract == ExInit /\ [][ExApply]_vars

-----------------------------------------------------------------------------
(* Claims about the path cleanup *)

BeginsWithSlash(s) == s # <<>> /\ s[1] = "/"

\* letters followed by a colon, anywhere in s
ContainsSchemeToken(s) ==
    \E k \in 2..Len(s) : s[k] = ":" /\ s[k - 1] \in Lower \cup Upper

\* s is lower-case letters, a colon, and a rest without a scheme token
HasOneLowerScheme(s) ==
    \E k \in 2..Len(s) :
        /\ s[k] = ":"
        /\ \A j \in 1..(k - 1) : s[j] \in Lower
        /\ ~ContainsSchemeToken(Drop(s, k))

\* C2 as stated: for every sources entry and every sourceRoot the cleaned path
\* neither starts with "/" nor holds a scheme token, and webpack:///src/x.js
\* with an empty sourceRoot becomes src/x.js.
C2_NoSlashNoScheme ==
    sanPc = "out" =>
        /\ ~BeginsWithSlash(sanOut)
        /\ ~ContainsSchemeToken(sanOut)
        /\ (sanSrc = WebpackSrc /\ sanRoot = <<>> => sanOut = WebpackCleaned)

\* C2 as amended: the cleaned path never starts with "/"; it holds no scheme
\* token when sourceRoot holds none and the entry either holds none or is one
\* lower-case scheme followed by a rest without a scheme token;
\* webpack:///src/x.js with an empty sourceRoot becomes src/x.js.
C2_NoSlashOneSchemeStripped ==
    sanPc = "out" =>
        /\ ~BeginsWithSlash(sanOut)
        /\ ((~ContainsSchemeToken(sanRoot)
               /\ (HasOneLowerScheme(sanSrc) \/ ~ContainsSchemeToken(sanSrc)))
               => ~ContainsSchemeToken(sanOut))
        /\ (sanSrc = WebpackSrc /\ sanRoot = <<>> => sanOut = WebpackCleaned)

\* a scheme with slashes was stripped from an entry under a sourceRoot
C2_Witness ==
    /\ sanPc = "out"
    /\ sanSrc = <<"a", ":", "/", "a">>
    /\ sanRoot = <<"/", "a">>
    /\ sanOut = <<"a", "/", "a">>

-----------------------------------------------------------------------------
(* Claims about extract_mapping_reference *)

\* the first */ after position p (0 when there is none)
FirstCommentEnd(t, p) ==
    IF \A k \in (p + 1)..Len(t) : t[k] # "*/" THEN 0
    ELSE CHOOSE k \in (p + 1)..Len(t) : t[k] = "*/" /\ \A j \in (p + 1)..(k - 1) : t[j] # "*/"

\* a comment  //# sourceMappingURL=<value>  starts at p
IsLineComment(t, p) == t[p] = "//#sm=" /\ p < Len(t) /\ t[p + 1] # "nl"

\* a comment  /*# sourceMappingURL=<value> */  starts at p: the value is on
\* the line of the comment and the comment ends at the first */
IsBlockComment(t, p) ==
    /\ t[p] = "/*#sm="
    /\ FirstCommentEnd(t, p) > p + 1
    /\ t[p + 1] # "nl"
    /\ \A j \in (p + 1)..(FirstCommentEnd(t, p) - 1) :
          t[j] = "nl" => \A n \in j..(FirstCommentEnd(t, p) - 1) : t[n] \in Whitespace

CommentValue(t, p) ==
    IF IsLineComment(t, p) THEN SubSeq(t, p + 1, LineEnd(t, p + 1))
    ELSE SubSeq(t, p + 1, FirstCommentEnd(t, p) - 1)

CommentStarts(t) == {p \in 1..Len(t) : IsLineComment(t, p) \/ IsBlockComment(t, p)}

\* the trimmed value of the leftmost mapping comment of t
FirstCommentValue(t) ==
    IF CommentStarts(t) = {} THEN NoReference
    ELSE LET p == CHOOSE q \in CommentStarts(t) : \A r \in CommentStarts(t) : q <= r
         IN  [found |-> TRUE, val |-> strip(CommentValue(t, p), Whitespace)]

\* C7: extractReference returns the trimmed value of the leftmost mapping
\* comment of the script, absent when the script has none, and foo.js.map for
\* a script whose first mapping comment is the line
\* //# sourceMappingURL=foo.js.map.
C7_FirstCommentValue ==
    exPc = "out" =>
        /\ exOut = FirstCommentValue(exText)
        /\ (exText \in FooTexts => exOut = [found |-> TRUE, val |-> FooMap])


-----------------------------------------------------------------------------
(* Claims about the run *)

SourceLoops == {"inline_sources", "remote_sources"}

\* how many sources of the map of the current entry the sources loop is
\* through with (after an exception in handle_map_url sm_json is still the
\* map of an earlier entry)
Handled ==
    IF pc \in SourceLoops THEN i - 1
    ELSE IF pc = "crashed" THEN 0 ELSE Len(sources)

\* the save_file calls made for the current entry
EntryWrites == {k \in 1..Len(writes) : writes[k].entry = e}

HasContent(n) == n <= Len(contents) /\ ~contents[n].isNone

\* C1: no failure of a script fetch, a map reference, a map decode or a source
\* fetch ends the run before the summary line.
C1_NoFailureEndsRun == pc # "crashed"

\* C3: a source whose sourcesContent entry is there and not null is never
\* fetched, and what is saved for it is that entry, for inline and remote
\* scripts alike.
C3_EmbeddedContentUsed ==
    \A n \in 1..Handled :
        HasContent(n) =>
            /\ \A k \in 1..Len(fetches) : fetches[k].index # n
            /\ Cardinality({k \in EntryWrites : writes[k].index = n}) = 1
            /\ \A k \in EntryWrites :
                  writes[k].index = n => writes[k].content = contents[n].text

\* an embedded source was saved after a source that had to be fetched
C3_Witness ==
    /\ pc = "inline_sources"
    /\ i = 3
    /\ ~HasContent(1) /\ HasContent(2)
    /\ Len(fetches) = 1
    /\ \E k \in EntryWrites : writes[k].index = 2 /\ writes[k].content = <<"x">>

\* C4: for a map without sourcesContent the sources are fetched once each, in
\* index order, whatever the earlier fetches gave.
C4_OneFetchPerSource ==
    contents = <<>> /\ pc # "crashed" =>
        /\ Len(fetches) = Handled
        /\ \A k \in 1..Len(fetches) : fetches[k].index = k
        /\ \A k \in EntryWrites : writes[k].index \in 1..Handled
        /\ \A j, k \in EntryWrites : writes[j].index = writes[k].index => j = k

\* the first fetch gave nothing and the second source was still recovered
C4_Witness ==
    /\ pc = "loop"
    /\ "sourcesContent" \notin DOMAIN sm_json.fields
    /\ Len(sources) = 2
    /\ Len(fetches) = 2
    /\ {writes[k].index : k \in EntryWrites} = {2}

\* C5 as stated: every saved source has non-empty content, and a map never
\* has more sources saved than it lists.
C5_NonEmptyContent ==
    /\ \A k \in 1..Len(writes) : writes[k].content # <<>>
    /\ Cardinality(EntryWrites) <= Len(sources)

\* C5 as amended: a source saved from a fetch has content that is not blank, a
\* source saved from sourcesContent has exactly that entry (which may be
\* empty), and a map never has more sources saved than it lists.
C5_FetchedNonBlank ==
    /\ \A k \in EntryWrites :
          IF HasContent(writes[k].index)
          THEN writes[k].content = contents[writes[k].index].text
          ELSE strip(writes[k].content, Whitespace) # <<>>
    /\ Cardinality(EntryWrites) <= Len(sources)

\* one map gave an empty embedded source and a fetched one
C5_Witness ==
    /\ Cardinality(EntryWrites) = 2
    /\ \E j, k \in EntryWrites :
          /\ HasContent(writes[j].index) /\ writes[j].content = <<>>
          /\ ~HasContent(writes[k].index) /\ writes[k].content = <<"y">>

\* the URL of the map of the current entry, when its reference is a URL
MapUrl == urljoin(IF pc = "inline_sources" THEN final_page_url ELSE js_final_url, sm.val)

\* C6: a source without embedded content is fetched relative to the URL of
\* the map when the map came from a URL, and relative to the URL of the page
\* when the map was a data: URI, for inline and remote scripts alike.
C6_FetchBase ==
    pc \in SourceLoops =>
        \A k \in 1..Len(fetches) :
            fetches[k].url =
                urljoin(IF StartsWith(sm.val, <<"data:">>) THEN final_page_url ELSE MapUrl,
                        sources[fetches[k].index])

\* C8: at the summary processed_maps is the number of entries whose reference
\* decoded to a document, an empty one included, and saved_files the number
\* of save_file calls.
C8_CountersAtSummary ==
    pc = "done" =>
        /\ processed_maps = Cardinality({k \in 1..Len(decoded) : decoded[k] = "document"})
        /\ saved_files = Len(writes)

\* C9: inline and remote entries write a source to the same path, the cleaned
\* path of sources[i] under sourceRoot.
C9_SamePathForInlineAndRemote ==
    \A k \in EntryWrites :
        writes[k].path = CleanedPath(sources[writes[k].index], src_root)

\* the last save_file call for path p
LastWrite(p) ==
    CHOOSE k \in 1..Len(writes) :
        writes[k].path = p /\ \A j \in (k + 1)..Len(writes) : writes[j].path # p

\* C10: every written path holds the content of the last source saved there,
\* no other path exists or changed, and saved_files counts every save.
C10_LastWriteWins ==
    /\ DOMAIN fs = {writes[k].path : k \in 1..Len(writes)}
    /\ \A p \in DOMAIN fs : fs[p] = writes[LastWrite(p)].content
    /\ saved_files = Len(writes)

\* a source of a later script replaced the file of an earlier one
C10_Witness ==
    /\ pc = "done"
    /\ saved_files > Cardinality(DOMAIN fs)
    /\ \E j, k \in 1..Len(writes) :
          /\ j < k
          /\ writes[j].entry < writes[k].entry
          /\ writes[j].path = writes[k].path
          /\ writes[j].content # writes[k].content
          /\ fs[writes[k].path] = writes[k].content


=============================================================================
